---- MODULE Spec2Model ----
(***************************************************************************)
(* The endpoint-validation pipeline of open_api_tools:                     *)
(*   open_api_tools/validate/index.py   prepare_request, file_request,     *)
(*                                      make_request                       *)
(*   open_api_tools/test/test_endpoint.py  parse_parameters, test_endpoint *)
(*                                                                         *)
(* Python values are modelled as strings: None is "None", True is "True",  *)
(* False is "False", the empty string is "", so that the membership test   *)
(* `"" not in examples` is a comparison of like values.                    *)
(*                                                                         *)
(* test_endpoint calls make_request with the keywords endpoint_name,       *)
(* before_request_send and after_error_occurred and reads the attribute    *)
(* `response` of a successful result; make_request of validate/index.py    *)
(* declares error_callback and FiledRequest has no such attribute.  The    *)
(* model binds after_error_occurred to error_callback, drops the two       *)
(* keywords index.py does not know, and lets a successful result carry,    *)
(* as `response`, the parsed body beside parsed_response: the call site    *)
(* reads that attribute and hands it to the constraint functions, which    *)
(* test_endpoint annotates as taking a Dict.                               *)
(***************************************************************************)
EXTENDS Integers, Sequences, FiniteSets, TLC

VARIABLES
    endpoint,               \* declared parameters of schema.paths[endpoint_name]
    hook,                   \* after_examples_generated: "none" or a behaviour
    base_url,               \* the base_url argument
    max_urls_per_endpoint,  \* the sampling cap argument
    pc,                     \* position of test_endpoint
    raised,                 \* the exception test_endpoint ended with, or "none"
    parameters,             \* result of parse_parameters
    generated,              \* per declared parameter: its example list before
                            \* the "" example is added and before the hook
    parameter_variations,   \* tuples of the cartesian product (maybe sampled)
    payloads,               \* payloads, index-aligned with the tuples
    product_size,           \* len(payloads) as printed before sampling
    sample_positions,       \* position in the full product of each kept pair
    index,                  \* number of payloads the loop has consumed
    calls,                  \* one record per make_request call, in call order
    responses,              \* the responses dict of test_endpoint
    reported,               \* ErrorMessages given to after_error_occurred
    parameter_constraints,  \* the parameter_constraints argument, in dict order
    constraint_calls        \* one record per constraint_function call, in order

vars == <<endpoint, hook, base_url, max_urls_per_endpoint, pc, raised,
          parameters, generated, parameter_variations, payloads, product_size,
          sample_positions, index, calls, responses, reported,
          parameter_constraints, constraint_calls>>

----------------------------------------------------------------------------
(* Bounds of the model *)

MaxParams == 1
MaxCap == 2
MaxSynth == 2

(* Program constants *)

StringMaxCount == 8
IntegerMaxCount == 2
StatusOk == 200

Min(a, b) == IF a < b THEN a ELSE b

None == "None"
PyTrue == "True"
PyFalse == "False"
Omit == ""

----------------------------------------------------------------------------
(* The inputs: the schema's declared parameters, the hooks, the server *)

ParamNames == <<"p1", "p2", "p3", "p4">>

Types == {"string", "integer", "boolean", "number"}

DeclaredExamples == { <<>>, <<"a">>, <<"a", "">> }

ParamDecl ==
    [required : BOOLEAN, type : Types, examples : DeclaredExamples,
     default : {"dflt"}]

RECURSIVE SeqsUpTo(_, _)
SeqsUpTo(S, n) ==
    IF n = 0 THEN { <<>> }
    ELSE LET shorter == SeqsUpTo(S, n - 1)
         IN  shorter \cup { Append(s, x) : s \in {t \in shorter : Len(t) = n - 1},
                                           x \in S }

Endpoints == SeqsUpTo(ParamDecl, MaxParams)

Hooks == {"none", "empty", "replace"}

BaseUrls == {None, "", "/", "http://api"}

EndpointName == "/things"

\* the parameter_constraints dictionaries tried: none, and two with both a
\* constraint on the body and one on the first declared parameter; `returns`
\* is what the constraint function answers
ConstraintDicts ==
    { <<>>,
      <<[name |-> "requestBody", returns |-> FALSE],
        [name |-> "p1", returns |-> TRUE]>>,
      <<[name |-> "p1", returns |-> FALSE],
        [name |-> "requestBody", returns |-> FALSE]>> }

LetterTokens == {"abcdefghij", "ABCDEFGHIJ"}
DigitTokens == {"0123456789", "9876543210"}

NoResponse == [status_code |-> 0, text |-> "unsent"]

Responses ==
    [status_code : {StatusOk, 404},
     text : {"json_good", "json_bad_schema", "<html>"}]

----------------------------------------------------------------------------
(* validate/index.py *)

ErrorMessage(type, title, error_status, url, extra) ==
    [type |-> type, title |-> title, error_status |-> error_status,
     url |-> url, extra |-> extra]

PreparedRequest(request, openapi_request) ==
    [type |-> "success", request |-> request,
     openapi_request |-> openapi_request]

FiledRequest(parsed_response, response) ==
    [type |-> "success", parsed_response |-> parsed_response,
     response |-> response]

\* json.loads(response.text): the parsed value, or JSONDecodeError
JsonLoads(text) ==
    IF text \in {"json_good", "json_bad_schema"}
    THEN [ok |-> TRUE, value |-> [json |-> text]]
    ELSE [ok |-> FALSE, value |-> None]

\* response_validator.validate(openapi_request, formatted_response).errors
ResponseSchemaErrors(response) ==
    IF response.text = "json_good" THEN <<>> ELSE <<"schema_error">>

\* lines 71-80
InvalidRequestUrl(request_url) ==
    ErrorMessage("invalid_request_url", "Invalid Request URL",
                 "Request URL does not meet the OpenAPI Schema requirements",
                 request_url, [text |-> <<"request_error">>])

\* lines 124-134
InvalidResponseCode(request_url, response) ==
    ErrorMessage("invalid_response_code", "Invalid Response",
                 "Response status code indicates an error has occurred",
                 request_url,
                 [status_code |-> response.status_code, text |-> response.text])

\* lines 142-151
InvalidResponseMimeType(request_url, response) ==
    ErrorMessage("invalid_response_mime_type", "Invalid response",
                 "Unable to parse JSON response", request_url,
                 [status_code |-> response.status_code, text |-> response.text])

\* lines 162-178
InvalidResponseSchema(request_url, response, parsed_response) ==
    ErrorMessage("invalid_response_schema", "Invalid response schema",
                 "Response content does not meet the OpenAPI Schema requirements",
                 request_url,
                 [text |-> ResponseSchemaErrors(response),
                  parsed_response |-> parsed_response])

\* error_callback(error_response); return error_response
\* `sends` counts the session.send calls made on the way
CallbackAndReturn(error_response, sends) ==
    [result |-> error_response, callbacks |-> <<error_response>>,
     sends |-> sends]

Return(value, sends) == [result |-> value, callbacks |-> <<>>, sends |-> sends]

\* prepare_request with the error returned but never given to error_callback
prepare_request_silent(request_url, body, request_errors) ==
    IF request_errors
    THEN Return(InvalidRequestUrl(request_url), 0)
    ELSE Return(PreparedRequest([url |-> request_url, data |-> body],
                                [url |-> request_url]), 0)

\* request_errors: whether request_validator.validate(...) reported errors
prepare_request(request_url, body, request_errors) ==
    IF request_errors
    THEN CallbackAndReturn(InvalidRequestUrl(request_url), 0)
    ELSE Return(PreparedRequest([url |-> request_url, data |-> body],
                                [url |-> request_url]), 0)

\* file_request with the JSON check made before the status check
file_request_json_first(request, openapi_request, request_url, served) ==
    LET response == served
        parsed == JsonLoads(response.text)
    IN  IF ~parsed.ok
        THEN CallbackAndReturn(InvalidResponseMimeType(request_url, response), 1)
        ELSE IF response.status_code # StatusOk
        THEN CallbackAndReturn(InvalidResponseCode(request_url, response), 1)
        ELSE IF ResponseSchemaErrors(response) # <<>>
        THEN CallbackAndReturn(
                 InvalidResponseSchema(request_url, response, parsed.value), 1)
        ELSE Return(FiledRequest(parsed.value, parsed.value), 1)

\* served: the response session.send obtains for the prepared request
file_request(request, openapi_request, request_url, served) ==
    LET response == served
        parsed == JsonLoads(response.text)
    IN  IF response.status_code # StatusOk
        THEN CallbackAndReturn(InvalidResponseCode(request_url, response), 1)
        ELSE IF ~parsed.ok
        THEN CallbackAndReturn(InvalidResponseMimeType(request_url, response), 1)
        ELSE IF ResponseSchemaErrors(response) # <<>>
        THEN CallbackAndReturn(
                 InvalidResponseSchema(request_url, response, parsed.value), 1)
        ELSE Return(FiledRequest(parsed.value, parsed.value), 1)

\* make_request without the early return of lines 216-217
make_request_always_files(request_url, body, request_errors, served) ==
    LET response == prepare_request(request_url, body, request_errors)
        filed == file_request([url |-> request_url, data |-> body],
                              [url |-> request_url], request_url, served)
    IN  [result |-> filed.result,
         callbacks |-> response.callbacks \o filed.callbacks,
         sends |-> response.sends + filed.sends]

make_request(request_url, body, request_errors, served) ==
    LET response == prepare_request(request_url, body, request_errors)
    IN  IF response.result.type # "success"
        THEN response
        ELSE LET filed == file_request(response.result.request,
                                       response.result.openapi_request,
                                       request_url, served)
             IN  [result |-> filed.result,
                  callbacks |-> response.callbacks \o filed.callbacks,
                  sends |-> response.sends + filed.sends]

----------------------------------------------------------------------------
(* open_api_tools/test/utils.py *)

SupportedTypes == {"string", "integer", "boolean"}

\* TRUE when validate_parameter_data accepts the parameter, FALSE when it raises
validate_parameter_data(parameter_data) ==
    ~(parameter_data.required /\ parameter_data.type \notin SupportedTypes)

\* (body, request_url) built from one tuple of the product: the first slot is
\* the body, the others fill the placeholders of the endpoint template
create_request_payload(variation, base) ==
    [body |-> variation[1], request_url |-> <<base>> \o Tail(variation)]

----------------------------------------------------------------------------
(* test_endpoint.py: parse_parameters *)

\* what the caller's after_examples_generated hook returns for a list
after_examples_generated(examples) ==
    CASE hook = "empty" -> <<>>
      [] hook = "replace" -> <<"h">>
      [] OTHER -> examples

TokenLists(letters, length) ==
    UNION { [1..k -> letters] : k \in 1..Min(length, MaxSynth) }

\* lines 67-93: the schema's examples, or random tokens when there are none
SynthesizedExamples(parameter) ==
    IF parameter.examples = <<>>
    THEN IF parameter.type = "string"
         THEN TokenLists(LetterTokens, StringMaxCount)
         ELSE IF parameter.type = "integer"
         THEN TokenLists(DigitTokens, IntegerMaxCount)
         ELSE { <<>> }
    ELSE { parameter.examples }

\* the boolean pair used only when nothing else was declared
BooleanExamples_unless_declared(parameter, examples) ==
    IF parameter.type = "boolean" /\ examples = <<>>
    THEN <<PyTrue, PyFalse>> ELSE examples

\* lines 95-96
BooleanExamples(parameter, examples) ==
    IF parameter.type = "boolean" THEN <<PyTrue, PyFalse>> ELSE examples

Contains(examples, value) == \E i \in 1..Len(examples) : examples[i] = value

\* the "" example added without looking at `required`
OmitExample_required_too(parameter, examples) ==
    IF ~Contains(examples, Omit) THEN Append(examples, Omit) ELSE examples

\* the "" example never added
OmitExample_never(parameter, examples) == examples

\* lines 98-102
OmitExample(parameter, examples) ==
    IF ~parameter.required /\ ~Contains(examples, Omit)
    THEN Append(examples, Omit)
    ELSE examples

\* what parameter_data.examples can hold at line 97 (before_omit) and at
\* line 103 (examples), before the hook sees it
GeneratedExamples(parameter) ==
    { [before_omit |-> BooleanExamples(parameter, s),
       examples |-> OmitExample(parameter, BooleanExamples(parameter, s))] :
        s \in SynthesizedExamples(parameter) }

RECURSIVE GeneratedLists(_)
GeneratedLists(declared) ==
    IF declared = <<>> THEN { <<>> }
    ELSE { <<g>> \o rest : g \in GeneratedExamples(Head(declared)),
                           rest \in GeneratedLists(Tail(declared)) }

ParameterData(name, required, examples, type, default) ==
    [name |-> name, required |-> required, examples |-> examples,
     type |-> type, default |-> default]

RequestBody ==
    [name |-> "requestBody",
     examples |-> IF hook # "none"
                  THEN after_examples_generated(<<None, None>>)
                  ELSE <<None, None>>]

\* the parameters list, for the example lists `made` of the declared ones
parse_parameters(made) ==
    <<RequestBody>> \o
    [i \in 1..Len(endpoint) |->
        ParameterData(ParamNames[i], endpoint[i].required,
                      IF hook # "none"
                      THEN after_examples_generated(made[i].examples)
                      ELSE made[i].examples,
                      endpoint[i].type, endpoint[i].default)]

\* position of the first declared parameter validate_parameter_data rejects
FirstInvalid ==
    LET bad == { i \in 1..Len(endpoint) : ~validate_parameter_data(endpoint[i]) }
    IN  IF bad = {} THEN 0
        ELSE CHOOSE i \in bad : \A j \in bad : i <= j

----------------------------------------------------------------------------
(* test_endpoint.py: test_endpoint *)

InvalidBaseUrl == base_url = None \/ base_url = "" \/ base_url = "/"

Init ==
    /\ endpoint \in Endpoints
    /\ hook \in Hooks
    /\ base_url \in BaseUrls
    /\ max_urls_per_endpoint \in 0..MaxCap
    /\ pc = "start"
    /\ raised = "none"
    /\ parameters = <<>>
    /\ generated = <<>>
    /\ parameter_variations = <<>>
    /\ payloads = <<>>
    /\ product_size = 0
    /\ sample_positions = <<>>
    /\ index = 0
    /\ calls = <<>>
    /\ responses = <<>>
    /\ reported = <<>>
    /\ parameter_constraints \in ConstraintDicts
    /\ constraint_calls = <<>>

\* lines 157-183: the base_url check and parse_parameters
Parse ==
    /\ pc = "start"
    /\ UNCHANGED <<endpoint, hook, base_url, max_urls_per_endpoint,
                   parameter_variations, payloads, product_size,
                   sample_positions, index, calls, responses, reported,
                   parameter_constraints, constraint_calls>>
    /\ IF InvalidBaseUrl
       THEN /\ pc' = "raised"
            /\ raised' = "Exception: Invalid base_url"
            /\ UNCHANGED <<parameters, generated>>
       ELSE \E made \in GeneratedLists(endpoint) :
              IF FirstInvalid # 0
              THEN /\ pc' = "raised"
                   /\ raised' = "ValidationError"
                   /\ generated' = SubSeq(made, 1, FirstInvalid - 1)
                   /\ UNCHANGED parameters
              ELSE /\ pc' = "parsed"
                   /\ parameters' = parse_parameters(made)
                   /\ generated' = made
                   /\ UNCHANGED raised

NextParse == Parse

SpecParse == Init /\ [][NextParse]_vars

\* itertools.product(*lists), in its order: the last list varies fastest
RECURSIVE Product(_)
Product(lists) ==
    IF lists = <<>> THEN << <<>> >>
    ELSE LET first == Head(lists)
             rest == Product(Tail(lists))
         IN  [k \in 1..(Len(first) * Len(rest)) |->
                 <<first[((k - 1) \div Len(rest)) + 1]>>
                 \o rest[((k - 1) % Len(rest)) + 1]]

\* the pairs built with the tuples in reverse order
Zip_misaligned(ps, vs) ==
    [i \in 1..Min(Len(ps), Len(vs)) |-> <<ps[i], vs[Len(vs) + 1 - i]>>]

\* list(zip(payloads, parameter_variations))
Zip(ps, vs) == [i \in 1..Min(Len(ps), Len(vs)) |-> <<ps[i], vs[i]>>]

\* positions drawn with replacement, as random.choices would
SamplePositions_with_replacement(n, k) == [1..k -> 1..n]

\* the position sequences random.sample(population, k) can draw from n items
SamplePositions(n, k) ==
    { s \in [1..k -> 1..n] : \A a, b \in 1..k : a # b => s[a] # s[b] }

\* random.sample(population, k) for one drawn position sequence
random_sample(population, positions) ==
    [j \in 1..Len(positions) |-> population[positions[j]]]

\* lines 186-188
AllVariations ==
    Product([i \in 1..Len(parameters) |-> parameters[i].examples])

\* lines 190-197
AllPayloads ==
    [i \in 1..Len(AllVariations) |->
        create_request_payload(AllVariations[i], base_url)]

\* lines 185-215: the product, the payloads and the sampling
Generate ==
    /\ pc = "parsed"
    /\ LET variations == AllVariations
           created == AllPayloads
       IN  /\ product_size' = Len(created)
           /\ IF Len(created) > max_urls_per_endpoint
              THEN \E positions \in SamplePositions(Len(created), max_urls_per_endpoint) :
                     LET sample == random_sample(Zip(created, variations), positions)
                     IN  IF sample = <<>>
                         THEN \* zip(*[]) yields nothing to unpack
                              /\ pc' = "raised"
                              /\ raised' = "ValueError"
                              /\ payloads' = created
                              /\ parameter_variations' = variations
                              /\ sample_positions' = <<>>
                         ELSE /\ pc' = "loop"
                              /\ payloads' = [j \in 1..Len(sample) |-> sample[j][1]]
                              /\ parameter_variations' =
                                     [j \in 1..Len(sample) |-> sample[j][2]]
                              /\ sample_positions' = positions
                              /\ UNCHANGED raised
              ELSE /\ pc' = IF Len(created) > 0 THEN "loop" ELSE "constraints"
                   /\ payloads' = created
                   /\ parameter_variations' = variations
                   /\ sample_positions' = [j \in 1..Len(created) |-> j]
                   /\ UNCHANGED raised
    /\ UNCHANGED <<endpoint, hook, base_url, max_urls_per_endpoint, parameters,
                   generated, index, calls, responses, reported,
                   parameter_constraints, constraint_calls>>

HasAttr(object, attribute) == attribute \in DOMAIN object

\* line 246
Failed(response) == response.type # "success"

\* the poll's answer ignored
Aborts_never(response, continue_on_fail) == FALSE

\* line 255: the loop returns when a failed request's poll answers False
Aborts(response, continue_on_fail) == Failed(response) /\ ~continue_on_fail

\* line 258
Fatal(response) == response.type = "invalid_request"

\* lines 221-262: one pass of the request loop.  request_errors and served
\* are the request validator's and the server's answers, continue_on_fail is
\* what should_continue_on_fail() returns if it is called
LoopIteration ==
    /\ pc = "loop"
    /\ \E request_errors \in BOOLEAN, served \in Responses \cup {NoResponse},
          continue_on_fail \in BOOLEAN :
         LET payload == payloads[index + 1]
             made == make_request(payload.request_url, payload.body,
                                  request_errors, served)
             response == made.result
             failed == Failed(response)
         IN  /\ request_errors <=> served = NoResponse
             /\ ~failed => continue_on_fail
             /\ calls' = Append(calls,
                    [index |-> index, request_url |-> payload.request_url,
                     body |-> payload.body, request_errors |-> request_errors,
                     served |-> served, result |-> response,
                     callbacks |-> made.callbacks, sends |-> made.sends,
                     polled |-> IF failed THEN <<continue_on_fail>> ELSE <<>>])
             /\ reported' = reported \o made.callbacks
             /\ IF Aborts(response, continue_on_fail)
                THEN /\ pc' = "returned"
                     /\ UNCHANGED <<raised, responses, index>>
                ELSE IF Fatal(response)
                THEN /\ pc' = "raised"
                     /\ raised' = "Exception: invalid_request"
                     /\ UNCHANGED <<responses, index>>
                ELSE /\ responses' =
                         IF HasAttr(response, "parsed_response")
                         THEN responses @@ (index :> response.response)
                         ELSE responses
                     /\ index' = index + 1
                     /\ pc' = IF index + 1 < Len(payloads)
                              THEN "loop" ELSE "constraints"
                     /\ UNCHANGED raised
    /\ UNCHANGED <<endpoint, hook, base_url, max_urls_per_endpoint, parameters,
                   generated, parameter_variations, payloads, product_size,
                   sample_positions, parameter_constraints, constraint_calls>>

\* line 183
parameter_names == [i \in 1..Len(parameters) |-> parameters[i].name]

\* list.index(value): the first position holding value
ListIndex(list, value) ==
    CHOOSE i \in 1..Len(list) :
        list[i] = value /\ \A j \in 1..(i - 1) : list[j] # value

\* lines 265-269
defined_constraints ==
    SelectSeq(parameter_constraints,
              LAMBDA c : Contains(parameter_names, c.name))

\* the keys of responses in insertion order, which is increasing index
RECURSIVE KeysInOrder(_)
KeysInOrder(keys) ==
    IF keys = {} THEN <<>>
    ELSE LET first == CHOOSE k \in keys : \A other \in keys : k <= other
         IN  <<first>> \o KeysInOrder(keys \ {first})

\* as ParameterValue, but without the substitution of the declared default
ParameterValue_no_default(request_index, parameter_name) ==
    parameter_variations[request_index + 1]
                        [ListIndex(parameter_names, parameter_name)]

\* lines 277-283; the requestBody entry has no default, and its examples are
\* never "" here
ParameterValue(request_index, parameter_name) ==
    LET position == ListIndex(parameter_names, parameter_name)
        parameter_value == parameter_variations[request_index + 1][position]
    IN  IF parameter_value = Omit
        THEN parameters[position].default
        ELSE parameter_value

\* json.dumps(value, indent=4, default=str)
JsonDumps(value) == [dumped |-> value]

\* the loop variable `response` after the loop: the last make_request result
LoopResponse == calls[Len(calls)].result

\* as ConstraintErrorUrl, but of the payload the loop handled last
ConstraintErrorUrl_last_payload(request_index) ==
    payloads[Len(payloads)].request_url

\* line 293
ConstraintErrorUrl(request_index) == payloads[request_index + 1].request_url

\* lines 288-299
FailedTestConstraint(request_index, parameter_name) ==
    ErrorMessage("failed_test_constraint", "Testing constraint failed",
                 <<"Constraint on the", EndpointName, "based on a parameter",
                   parameter_name, "failed">>,
                 ConstraintErrorUrl(request_index),
                 [response |-> JsonDumps(LoopResponse)])

\* lines 277-300 for one retained response and one constraint
Evaluation(request_index, constraint) ==
    [request_index |-> request_index,
     parameter_name |-> constraint.name,
     parameter_value |-> ParameterValue(request_index, constraint.name),
     endpoint_name |-> EndpointName,
     response_object |-> responses[request_index],
     returned |-> constraint.returns,
     errors |-> IF constraint.returns THEN <<>>
                ELSE <<FailedTestConstraint(request_index, constraint.name)>>]

\* as Evaluations, but the outer loop stops after the first retained response
Evaluations_first_response_only(keys, constraints) ==
    IF keys = <<>> THEN <<>>
    ELSE [j \in 1..Len(constraints) |-> Evaluation(Head(keys), constraints[j])]

\* lines 271-275: every retained response with every defined constraint
RECURSIVE Evaluations(_, _)
Evaluations(keys, constraints) ==
    IF keys = <<>> THEN <<>>
    ELSE [j \in 1..Len(constraints) |-> Evaluation(Head(keys), constraints[j])]
         \o Evaluations(Tail(keys), constraints)

RECURSIVE ErrorsOf(_)
ErrorsOf(evaluations) ==
    IF evaluations = <<>> THEN <<>>
    ELSE Head(evaluations).errors \o ErrorsOf(Tail(evaluations))

\* lines 264-308: the constraint phase
ConstraintPhase ==
    /\ pc = "constraints"
    /\ LET evaluations ==
               Evaluations(KeysInOrder(DOMAIN responses), defined_constraints)
       IN  /\ constraint_calls' = evaluations
           /\ reported' = reported \o ErrorsOf(evaluations)
    /\ pc' = "done"
    /\ UNCHANGED <<endpoint, hook, base_url, max_urls_per_endpoint, raised,
                   parameters, generated, parameter_variations, payloads,
                   product_size, sample_positions, index, calls, responses,
                   parameter_constraints>>

Next == Parse \/ Generate \/ LoopIteration \/ ConstraintPhase

Spec == Init /\ [][Next]_vars

----------------------------------------------------------------------------
(* Properties *)

ErrorKinds ==
    {"invalid_request_url", "invalid_response_code",
     "invalid_response_mime_type", "invalid_response_schema"}

AllCalls == { calls[j] : j \in 1..Len(calls) }

\* C1: every make_request call whose request fails OpenAPI request validation
\* returns an ErrorMessage of type invalid_request_url and makes no
\* session.send call.
C1_InvalidRequestNeverSent ==
    \A c \in AllCalls :
        c.request_errors =>
            /\ c.result.type = "invalid_request_url"
            /\ c.result.url = c.request_url
            /\ c.sends = 0

C1_Witness == \E c \in AllCalls : c.request_errors

\* the kind the first failing check of a served response stands for
FirstFailingCheck(served) ==
    IF served.status_code # 200 THEN "invalid_response_code"
    ELSE IF served.text = "<html>" THEN "invalid_response_mime_type"
    ELSE IF served.text = "json_bad_schema" THEN "invalid_response_schema"
    ELSE "success"

\* C2: every request that was sent is classified into exactly one outcome, the
\* one of its first failing check in the order status code, JSON body,
\* response schema; a response passing all three is a success carrying the
\* parsed body.
C2_ResponseClassifiedInOrder ==
    \A c \in AllCalls :
        c.sends > 0 =>
            /\ c.sends = 1
            /\ c.result.type = FirstFailingCheck(c.served)
            /\ c.result.type = "success" =>
                   c.result.parsed_response = [json |-> c.served.text]

C2_Witness ==
    /\ \E c \in AllCalls : c.served = [status_code |-> 404, text |-> "<html>"]
    /\ \E c \in AllCalls : c.served = [status_code |-> 200, text |-> "json_good"]

\* C3: a make_request call ending in one of the four error kinds has invoked
\* the error callback exactly once, with the ErrorMessage it returns; a call
\* ending in success has not invoked it; every call ends in one of the five.
C3_CallbackOncePerFailure ==
    \A c \in AllCalls :
        /\ c.result.type \in ErrorKinds \cup {"success"}
        /\ c.result.type \in ErrorKinds => c.callbacks = <<c.result>>
        /\ c.result.type = "success" => c.callbacks = <<>>

C3_Witness ==
    /\ \E c \in AllCalls : c.result.type = "invalid_request_url"
    /\ \E c \in AllCalls : c.result.type = "success"

LoopEntered == {"loop", "constraints", "returned", "done"}

LoopEnded == {"constraints", "done"}

RECURSIVE ProductOfCounts(_)
ProductOfCounts(params) ==
    IF params = <<>> THEN 1
    ELSE Len(Head(params).examples) * ProductOfCounts(Tail(params))

\* C4: the payload sequence that enters the request loop has as many payloads
\* as the product of the example counts when that is at most
\* max_urls_per_endpoint and exactly max_urls_per_endpoint otherwise, and at
\* every position the payload is the one create_request_payload builds from
\* the tuple at that position, which takes one example from each parameter.
C4_PayloadCountAndPairing ==
    pc \in LoopEntered =>
        LET n == ProductOfCounts(parameters)
        IN  /\ Len(payloads) = IF n <= max_urls_per_endpoint
                               THEN n ELSE max_urls_per_endpoint
            /\ Len(parameter_variations) = Len(payloads)
            /\ \A i \in 1..Len(payloads) :
                 /\ payloads[i] =
                        create_request_payload(parameter_variations[i], base_url)
                 /\ Len(parameter_variations[i]) = Len(parameters)
                 /\ \A k \in 1..Len(parameters) :
                        Contains(parameters[k].examples,
                                 parameter_variations[i][k])

C4_Witness ==
    /\ pc = "loop"
    /\ product_size > max_urls_per_endpoint
    /\ Len(payloads) = 2
    /\ sample_positions[1] > sample_positions[2]
    /\ payloads[1] # payloads[2]

\* C5: make_request is called for the positions of the payload sequence in
\* order, once each, with that position's payload; a run that reaches the end
\* of the loop has made exactly one call per position, and when the product
\* exceeded the cap these are max_urls_per_endpoint calls for pairwise
\* distinct positions of the full product.
C5_EachPayloadRequestedOnce ==
    /\ \A j \in 1..Len(calls) :
         /\ calls[j].index = j - 1
         /\ j <= Len(payloads)
         /\ calls[j].request_url = payloads[j].request_url
         /\ calls[j].body = payloads[j].body
    /\ pc \in LoopEnded => Len(calls) = Len(payloads)
    /\ (pc \in LoopEnded /\ product_size > max_urls_per_endpoint) =>
         /\ Len(calls) = max_urls_per_endpoint
         /\ Len(sample_positions) = max_urls_per_endpoint
         /\ \A a, b \in 1..Len(sample_positions) :
              a # b => sample_positions[a] # sample_positions[b]
         /\ \A j \in 1..Len(sample_positions) :
              /\ sample_positions[j] \in 1..product_size
              /\ payloads[j] = AllPayloads[sample_positions[j]]

C5_Witness ==
    /\ pc = "constraints"
    /\ product_size > max_urls_per_endpoint
    /\ Len(calls) = 2

IsParsed == pc = "parsed"

\* C6 as stated: after parse_parameters every boolean parameter's example
\* list is exactly (True, False), required or optional.
C6_BooleanExactlyTrueFalse ==
    IsParsed =>
        \A i \in 1..Len(endpoint) :
            endpoint[i].type = "boolean" =>
                parameters[i + 1].examples = <<PyTrue, PyFalse>>

\* C6 amended: the example list of a boolean parameter, as it stands before
\* the after_examples_generated hook is applied (the final list when no hook
\* is supplied), is (True, False) when the parameter is required and
\* (True, False, "") when it is optional, whatever the schema declared.
C6_BooleanBeforeHook ==
    IsParsed =>
        \A i \in 1..Len(endpoint) :
            endpoint[i].type = "boolean" =>
                /\ generated[i].examples =
                       IF endpoint[i].required
                       THEN <<PyTrue, PyFalse>>
                       ELSE <<PyTrue, PyFalse, Omit>>
                /\ hook = "none" =>
                       parameters[i + 1].examples = generated[i].examples

C6_Witness ==
    /\ IsParsed
    /\ \E i \in 1..Len(endpoint) :
         /\ endpoint[i].type = "boolean"
         /\ ~endpoint[i].required
         /\ endpoint[i].examples = <<"a">>
         /\ parameters[i + 1].examples = <<PyTrue, PyFalse, Omit>>

Count(examples, value) ==
    Cardinality({ i \in 1..Len(examples) : examples[i] = value })

\* what C7 asks of the list `after` of a parameter whose list was `before`
OmitRule(required, before, after) ==
    IF ~required /\ ~Contains(before, Omit)
    THEN after = Append(before, Omit)
    ELSE Count(after, Omit) = Count(before, Omit)

\* C7 as stated: after parse_parameters an optional parameter whose list held
\* no "" has exactly one "" appended at the end, and any other parameter has
\* gained none.
C7_OmitExampleInResult ==
    IsParsed =>
        \A i \in 1..Len(endpoint) :
            OmitRule(endpoint[i].required, generated[i].before_omit,
                     parameters[i + 1].examples)

\* C7 amended: the same, of the list as it stands before the
\* after_examples_generated hook is applied (the final list when no hook is
\* supplied).
C7_OmitExampleBeforeHook ==
    IsParsed =>
        \A i \in 1..Len(endpoint) :
            /\ OmitRule(endpoint[i].required, generated[i].before_omit,
                        generated[i].examples)
            /\ endpoint[i].required /\ ~Contains(generated[i].before_omit, Omit)
                   => generated[i].examples = generated[i].before_omit
            /\ hook = "none" =>
                   parameters[i + 1].examples = generated[i].examples

C7_Witness ==
    /\ IsParsed
    /\ hook = "none"
    /\ \E i \in 1..Len(endpoint) :
         /\ ~endpoint[i].required
         /\ endpoint[i].type = "string"
         /\ endpoint[i].examples = <<>>
         /\ Len(parameters[i + 1].examples) = 3
         /\ parameters[i + 1].examples[3] = Omit

AllNonEmpty == \A i \in 1..Len(parameters) : parameters[i].examples # <<>>

\* C8 as stated: every parameter fed to the cartesian product has a non-empty
\* example list when the product is computed.
C8_ExamplesNeverEmpty == IsParsed => AllNonEmpty

HookKeepsNonEmpty ==
    \/ hook = "none"
    \/ /\ after_examples_generated(<<None, None>>) # <<>>
       /\ \A i \in 1..Len(generated) :
            after_examples_generated(generated[i].examples) # <<>>

\* C8 amended: every parameter fed to the cartesian product has a non-empty
\* example list when the product is computed, provided the
\* after_examples_generated hook, when supplied, returns a non-empty list for
\* every parameter.
C8_ExamplesNonEmptyUnlessHook == (IsParsed /\ HookKeepsNonEmpty) => AllNonEmpty

C8_Witness ==
    /\ IsParsed
    /\ hook = "replace"
    /\ \E i \in 1..Len(endpoint) :
         /\ endpoint[i].type = "number"
         /\ endpoint[i].examples = <<>>
         /\ generated[i].examples = <<Omit>>

\* C9: should_continue_on_fail is polled once after each request that is not
\* classified success and never after a success; once it answers False the
\* test has returned and no further make_request call follows.
C9_PolledOncePerFailure ==
    \A j \in 1..Len(calls) :
        /\ calls[j].result.type # "success" => Len(calls[j].polled) = 1
        /\ calls[j].result.type = "success" => calls[j].polled = <<>>
        /\ calls[j].polled = <<FALSE>> => (j = Len(calls) /\ pc = "returned")

C9_Witness ==
    /\ pc = "returned"
    /\ Len(calls) = 1
    /\ calls[1].result.type = "invalid_response_schema"
    /\ calls[1].polled = <<FALSE>>
    /\ Len(payloads) = 2

\* C10: a request that fails OpenAPI request validation makes test_endpoint
\* raise at once, whatever should_continue_on_fail answers, and no later
\* payload is requested.
C10_InvalidRequestAlwaysRaises ==
    \A j \in 1..Len(calls) :
        calls[j].request_errors => (pc = "raised" /\ j = Len(calls))

----------------------------------------------------------------------------
(* The constraint phase *)

\* the positions whose make_request call ended in success
SuccessfulIndexes ==
    { calls[j].index : j \in { k \in 1..Len(calls) :
                                  calls[k].result.type = "success" } }

\* the names the parsed parameter list declares
DeclaredNames == { parameters[k].name : k \in 1..Len(parameters) }

\* the registered constraints whose name is a declared parameter
MatchingConstraints ==
    { parameter_constraints[j].name :
        j \in { k \in 1..Len(parameter_constraints) :
                   parameter_constraints[k].name \in DeclaredNames } }

\* the constraint_function calls made for one response and one constraint
CallsFor(request_index, parameter_name) ==
    { j \in 1..Len(constraint_calls) :
        /\ constraint_calls[j].request_index = request_index
        /\ constraint_calls[j].parameter_name = parameter_name }

EveryPairInvokedOnce ==
    /\ \A i \in DOMAIN responses : \A name \in MatchingConstraints :
           Cardinality(CallsFor(i, name)) = 1
    /\ \A j \in 1..Len(constraint_calls) :
           /\ constraint_calls[j].request_index \in DOMAIN responses
           /\ constraint_calls[j].parameter_name \in MatchingConstraints

FailedConstraintReports ==
    SelectSeq(reported, LAMBDA e : e.type = "failed_test_constraint")

\* the constraint_function calls that answered false, in order
FailingCalls == SelectSeq(constraint_calls, LAMBDA c : ~c.returned)

PositionOf(parameter_name) ==
    CHOOSE k \in 1..Len(parameters) : parameters[k].name = parameter_name

SentPositions(i) ==
    { j \in 1..Len(calls) :
        /\ calls[j].request_url = payloads[i].request_url
        /\ calls[j].body = payloads[i].body
        /\ calls[j].sends = 1 }

\* the positions of the payload sequence holding the payload of position i
SamePayloadPositions(i) ==
    { j \in 1..Len(payloads) : payloads[j] = payloads[i] }

\* a run without the after_examples_generated hook whose product fits the cap
UncappedWithoutHook ==
    hook = "none" /\ pc \in LoopEntered /\ product_size <= max_urls_per_endpoint

\* the part of C14 about the payload sequence: requestBody has the two
\* examples None, None, the sequence has even length and every payload stands
\* at two positions or more.
PayloadsComeInPairs ==
    UncappedWithoutHook =>
        /\ parameters[1].name = "requestBody"
        /\ parameters[1].examples = <<None, None>>
        /\ Len(payloads) % 2 = 0
        /\ \A i \in 1..Len(payloads) : Cardinality(SamePayloadPositions(i)) >= 2

\* C14: in a run without the after_examples_generated hook whose product fits
\* the cap and whose loop was not aborted, the payload sequence has even
\* length, every payload stands at two positions or more, and the request of
\* every payload was sent to the server at least twice.
C14_EachRequestSentTwice ==
    /\ PayloadsComeInPairs
    /\ (UncappedWithoutHook /\ pc \in LoopEnded) =>
           \A i \in 1..Len(payloads) : Cardinality(SentPositions(i)) >= 2

\* C15: every failed_test_constraint ErrorMessage reported for the retained
\* response at position i carries in extra.response the dump of what the
\* request at position i obtained (the make_request result, or its parsed
\* body), never that of another request.
C15_ExtraHoldsOwnResponse ==
    /\ Len(FailedConstraintReports) = Len(FailingCalls)
    /\ \A k \in 1..Len(FailingCalls) :
         LET i == FailingCalls[k].request_index
         IN  FailedConstraintReports[k].extra.response
                 \in {JsonDumps(calls[i + 1].result), JsonDumps(responses[i])}

====
